---- MODULE Spec2Model ----
(***************************************************************************)
(* ExamForge: the batched multimodal exam generator                        *)
(* (generate_exam_with_groq), the PDF report builder (create_pdf_report)   *)
(* and the Streamlit page script that binds them to user actions.          *)
(***************************************************************************)
EXTENDS Integers, Sequences, FiniteSets, TLC

VARIABLES
    base64_images,    \* generate_exam_with_groq: the page images, as page numbers
    status_callback,  \* generate_exam_with_groq: TRUE when a callback is given
    i,                \* generate_exam_with_groq: the loop variable of range(0, total_pages, batch_size)
    gen_pc,           \* "idle" | "loop" | "returned" | "raised"
    all_results,      \* generate_exam_with_groq: the three result lists
    events,           \* what the function did, in order: status messages and model calls
    responses,        \* history: the outcome of the model call of each batch
    handled,          \* history: per batch, whether it ended in the exception handler
    before,           \* history: all_results as it was when the last batch started
    app_pc,           \* page script: "none" | "idle" | "generating"
    uploaded_file,    \* page script: 0 = None, else the page count of the uploaded PDF
    user_question,    \* page script: TRUE when the text input holds a question
    process_runs,     \* times the upload-processing block ran for the current upload
    screen,           \* what the last run of the page script displayed
    exam_json,        \* create_pdf_report: its argument
    story,            \* create_pdf_report: the element sequence
    pdf_pc            \* "none" | "start" | "built"

vars == <<base64_images, status_callback, i, gen_pc, all_results, events, responses,
          handled, before, app_pc, uploaded_file, user_question, process_runs, screen,
          exam_json, story, pdf_pc>>

genVars == <<base64_images, status_callback, i, gen_pc, all_results, events, responses,
             handled, before>>
appVars == <<app_pc, uploaded_file, user_question, process_runs, screen>>
pdfVars == <<exam_json, story, pdf_pc>>

----------------------------------------------------------------------------
(* Bounds *)

MaxPages == 6
MaxItems == 2
MaxPdfPages == 2
MaxRuns == 3
MaxPdfItems == 2
NumOptions == 2

----------------------------------------------------------------------------
(* Values *)

Min(a, b) == IF a < b THEN a ELSE b

Keys == <<"mcq", "short_answer", "essay">>
KeySet == {"mcq", "short_answer", "essay"}
KeyNum(k) == CASE k = "mcq" -> 1 [] k = "short_answer" -> 2 [] k = "essay" -> 3

Fields == {"question", "options", "answer", "key_points_to_cover"}

\* The shapes of item a response is drawn with: every field, the question
\* alone, and the empty mapping.
Shapes == {Fields, {"question"}, {}}

\* An item of a question list: a mapping. id stands for its contents (the
\* texts the model wrote), has is the set of its keys.
Item(b, k, j, shape) == [id |-> 100 * b + 10 * KeyNum(k) + j, has |-> shape]

ItemList(b, k, len, shape) == [j \in 1..len |-> Item(b, k, j, shape)]

\* What a key of a parsed response holds: nothing (the key is absent), a
\* value that is not iterable (a number, null), or a list of items.
Absent == [t |-> "absent", items |-> <<>>]
NotIterable == [t |-> "noniter", items |-> <<>>]
ListOf(s) == [t |-> "list", items |-> s]

KeyValues(b, k, shape) ==
    {Absent, NotIterable} \cup {ListOf(ItemList(b, k, len, shape)) : len \in 0..MaxItems}

\* The outcomes of the model call of batch b: the call raises, the content is
\* not JSON, the content is a JSON number, or it is a JSON object.
NoVals == [k \in KeySet |-> Absent]
Failure(kind) == [kind |-> kind, vals |-> NoVals]
Responses(b) ==
    {Failure("raise"), Failure("badjson"), Failure("scalar")}
    \cup {[kind |-> "object",
           vals |-> [k \in KeySet |-> CASE k = "mcq" -> m
                                        [] k = "short_answer" -> s
                                        [] k = "essay" -> e]] :
            <<m, s, e>> \in UNION {KeyValues(b, "mcq", sh) \X KeyValues(b, "short_answer", sh)
                                     \X KeyValues(b, "essay", sh) : sh \in Shapes}}

EmptyResults == [k \in KeySet |-> <<>>]

----------------------------------------------------------------------------
(* generate_exam_with_groq *)

batch_size == 5

total_pages == Len(base64_images)

\* A slice that stops one image short: images[i:i + batch_size - 1].
BatchSliceShort(images, at) == SubSeq(images, at + 1, Min(at + batch_size - 1, Len(images)))

BatchSlice(images, at) == SubSeq(images, at + 1, Min(at + batch_size, Len(images)))

current_batch_num(at) == (at \div batch_size) + 1

total_batches(n) == (n + batch_size - 1) \div batch_size

\* A progress message whose last page is not capped at the page count.
StatusMessageUncapped(at, n) ==
    [type |-> "status", batch |-> (at \div batch_size) + 1,
     total |-> (n + batch_size - 1) \div batch_size,
     lo |-> at + 1, hi |-> at + batch_size, pages |-> <<>>]

\* An entry of events. A status message carries the numbers it prints, a
\* model call the page images it sends.
StatusMessage(at, n) ==
    [type |-> "status", batch |-> current_batch_num(at), total |-> total_batches(n),
     lo |-> at + 1, hi |-> Min(at + batch_size, n), pages |-> <<>>]

ModelCall(at, batch) ==
    [type |-> "call", batch |-> current_batch_num(at), total |-> 0, lo |-> 0, hi |-> 0,
     pages |-> batch]

ErrorMessage(at) ==
    [type |-> "error", batch |-> current_batch_num(at), total |-> 0, lo |-> 0, hi |-> 0,
     pages |-> <<>>]

\* `if k in result: all_results[k].extend(result[k])`: extend raises on a
\* value that is not iterable, and leaves the list as it was.
ExtendKey(res, result, k) ==
    CASE result.vals[k].t = "absent" -> [results |-> res, error |-> "none"]
      [] result.vals[k].t = "noniter" -> [results |-> res, error |-> "type"]
      [] result.vals[k].t = "list" ->
            [results |-> [res EXCEPT ![k] = @ \o result.vals[k].items], error |-> "none"]

\* The body of the try block: the call, json.loads, then the three merges in
\* order. The first statement that raises ends it.
TryBody(res, resp) ==
    IF resp.kind = "raise" THEN [results |-> res, error |-> "api"]
    ELSE IF resp.kind = "badjson" THEN [results |-> res, error |-> "json"]
    ELSE IF resp.kind = "scalar" THEN [results |-> res, error |-> "type"]
    ELSE LET m == ExtendKey(res, resp, "mcq") IN
         IF m.error # "none" THEN m
         ELSE LET s == ExtendKey(m.results, resp, "short_answer") IN
              IF s.error # "none" THEN s
              ELSE ExtendKey(s.results, resp, "essay")

\* A handler that catches the parse error alone: except json.JSONDecodeError.
HandlerCatchesJsonOnly(error) == error = "json"

\* `except Exception`: every error of the try block is caught.
HandlerCatches(error) == TRUE

\* The message the callback receives, when there is one.
Emit(callback, msg) == IF callback THEN <<msg>> ELSE <<>>

NextIndex(at) == at + batch_size

\* The call: the state of the function at its first statement.
GenStart(images, callback) ==
    /\ base64_images' = images
    /\ status_callback' = callback
    /\ i' = 0
    /\ gen_pc' = "loop"
    /\ all_results' = EmptyResults
    /\ events' = <<>>
    /\ responses' = <<>>
    /\ handled' = <<>>
    /\ before' = EmptyResults

\* One iteration of the loop over the batches.
GenIterate ==
    /\ gen_pc = "loop"
    /\ i < total_pages
    /\ \E resp \in Responses(current_batch_num(i)) :
         LET batch == BatchSlice(base64_images, i)
             out == TryBody(all_results, resp)
             failed == out.error # "none"
         IN /\ all_results' = out.results
            /\ before' = all_results
            /\ responses' = Append(responses, resp)
            /\ handled' = Append(handled, failed)
            /\ events' = events \o Emit(status_callback, StatusMessage(i, total_pages))
                                \o <<ModelCall(i, batch)>>
                                \o (IF failed /\ HandlerCatches(out.error)
                                    THEN Emit(status_callback, ErrorMessage(i)) ELSE <<>>)
            /\ IF failed /\ ~HandlerCatches(out.error)
               THEN gen_pc' = "raised" /\ i' = i
               ELSE gen_pc' = "loop" /\ i' = NextIndex(i)
    /\ UNCHANGED <<base64_images, status_callback>>
    /\ UNCHANGED appVars
    /\ UNCHANGED pdfVars

\* `return all_results`, when the range is exhausted.
GenReturn ==
    /\ gen_pc = "loop"
    /\ i >= total_pages
    /\ gen_pc' = "returned"
    /\ UNCHANGED <<base64_images, status_callback, i, all_results, events, responses,
                   handled, before>>
    /\ UNCHANGED appVars
    /\ UNCHANGED pdfVars


----------------------------------------------------------------------------
(* create_pdf_report *)

\* An element of the story. A Paragraph has a style and a text; the text is
\* a literal, or a number followed by a value taken from an item; a Spacer
\* has a height, in hundredths of an inch.
Element(kind, style, lit, num, val, h) ==
    [kind |-> kind, style |-> style, lit |-> lit, num |-> num, val |-> val, h |-> h]

NoValue == [field |-> "", id |-> 0, opt |-> 0]
Heading(style, lit) == Element("Paragraph", style, lit, 0, NoValue, 0)
Numbered(num, val) == Element("Paragraph", "question", "", num, val, 0)
Bullet(val) == Element("Paragraph", "option", "", 0, val, 0)
Spacer(h) == Element("Spacer", "", "", 0, NoValue, h)
PageBreak == Element("PageBreak", "", "", 0, NoValue, 0)

\* q.get(field, 'N/A')
Get(q, field) ==
    IF field \in q.has THEN [field |-> field, id |-> q.id, opt |-> 0]
    ELSE [field |-> "N/A", id |-> 0, opt |-> 0]

\* q.get('options', []): an item that has options has NumOptions of them.
Options(q) ==
    IF "options" \in q.has THEN [o \in 1..NumOptions |-> [field |-> "options", id |-> q.id, opt |-> o]]
    ELSE <<>>

\* The elements of the questions from..Len(list) of a question section.
RECURSIVE QuestionElements(_, _, _)
QuestionElements(list, from, withOptions) ==
    IF from > Len(list) THEN <<>>
    ELSE <<Numbered(from, Get(list[from], "question"))>>
         \o (IF withOptions
             THEN [o \in 1..Len(Options(list[from])) |-> Bullet(Options(list[from])[o])]
             ELSE <<>>)
         \o <<Spacer(10)>>
         \o QuestionElements(list, from + 1, withOptions)

QuestionSection(exam, k, title, withOptions) ==
    IF exam[k] # <<>>
    THEN <<Heading("section", title)>> \o QuestionElements(exam[k], 1, withOptions)
    ELSE <<>>

\* Answer entries numbered as enumerate numbers them, from 0.
AnswerEntriesFromZero(list, field) ==
    [n \in 1..Len(list) |-> Numbered(n - 1, Get(list[n], field))]

AnswerEntries(list, field) == [n \in 1..Len(list) |-> Numbered(n, Get(list[n], field))]

AnswerSection(exam, k, title, field, spaceAfter) ==
    IF exam[k] # <<>>
    THEN <<Heading("section", title)>> \o AnswerEntries(exam[k], field)
         \o (IF spaceAfter THEN <<Spacer(15)>> ELSE <<>>)
    ELSE <<>>

create_pdf_report(exam) ==
    <<Heading("title", "Generated Exam Report"), Spacer(20)>>
    \o QuestionSection(exam, "mcq", "Part I: Multiple Choice Questions", TRUE)
    \o QuestionSection(exam, "short_answer", "Part II: Short Answer Questions", FALSE)
    \o QuestionSection(exam, "essay", "Part III: Essay Questions", FALSE)
    \o <<PageBreak, Heading("title", "Answer Key"), Spacer(20)>>
    \o AnswerSection(exam, "mcq", "Multiple Choice Answers:", "answer", TRUE)
    \o AnswerSection(exam, "short_answer", "Short Answer Reference:", "answer", TRUE)
    \o AnswerSection(exam, "essay", "Essay Key Points:", "key_points_to_cover", FALSE)

\* The call of create_pdf_report on its argument.
CreatePdfReport ==
    /\ pdf_pc = "start"
    /\ story' = create_pdf_report(exam_json)
    /\ pdf_pc' = "built"
    /\ UNCHANGED exam_json
    /\ UNCHANGED genVars
    /\ UNCHANGED appVars

----------------------------------------------------------------------------
(* The page script (app_streamlit.py). Streamlit runs it from the top on *)
(* every user action; its variables are those of the run.                *)

NoScreen ==
    [processed |-> FALSE, answer |-> FALSE, warning |-> FALSE, success |-> FALSE,
     total |-> 0, rendered |-> FALSE, export |-> FALSE, download |-> FALSE,
     error |-> FALSE]

InitGen ==
    /\ \E n \in 0..MaxPages : base64_images = [p \in 1..n |-> p]
    /\ status_callback \in BOOLEAN
    /\ i = 0
    /\ gen_pc = "loop"
    /\ all_results = EmptyResults
    /\ events = <<>>
    /\ responses = <<>>
    /\ handled = <<>>
    /\ before = EmptyResults
    /\ app_pc = "none"
    /\ uploaded_file = 0
    /\ user_question = FALSE
    /\ process_runs = 0
    /\ screen = NoScreen
    /\ exam_json = EmptyResults
    /\ story = <<>>
    /\ pdf_pc = "none"

NextGen == GenIterate \/ GenReturn

SpecGen == InitGen /\ [][NextGen]_vars


\* What a run displays before the tabs' handlers: the upload is processed
\* (temp file, extraction, chunking, index, chain), and the chat tab answers
\* the question the text input holds.
Processed(question) == [NoScreen EXCEPT !.processed = TRUE, !.answer = question]

\* The number of times the processing block has run, after one more run.
ProcessAgain(runs) == runs + 1

\* q['question'] and, for a multiple-choice item, q['options'] raise KeyError
\* on an item that lacks the key.
RenderRaises(exam) ==
    \/ \E n \in 1..Len(exam["mcq"]) : ~({"question", "options"} \subseteq exam["mcq"][n].has)
    \/ \E n \in 1..Len(exam["short_answer"]) : "question" \notin exam["short_answer"][n].has
    \/ \E n \in 1..Len(exam["essay"]) : "question" \notin exam["essay"][n].has

IsEmptyExam(exam) ==
    exam["mcq"] = <<>> /\ exam["short_answer"] = <<>> /\ exam["essay"] = <<>>

TotalQuestions(exam) == Len(exam["mcq"]) + Len(exam["short_answer"]) + Len(exam["essay"])

\* What the Generate handler displays once generate_exam_with_groq returned.
Display(shown, exam) ==
    IF IsEmptyExam(exam) THEN [shown EXCEPT !.warning = TRUE]
    ELSE IF RenderRaises(exam)
         THEN [shown EXCEPT !.success = TRUE, !.total = TotalQuestions(exam), !.error = TRUE]
         ELSE [shown EXCEPT !.success = TRUE, !.total = TotalQuestions(exam),
                            !.rendered = TRUE, !.export = TRUE, !.download = TRUE]

\* The user uploads a PDF of p pages: the first run with a file.
Upload ==
    /\ app_pc = "idle"
    /\ \E p \in 1..MaxPdfPages : uploaded_file' = p
    /\ process_runs' = 1
    /\ screen' = Processed(user_question)
    /\ exam_json' = EmptyResults
    /\ story' = <<>>
    /\ UNCHANGED <<app_pc, user_question>>
    /\ UNCHANGED genVars
    /\ UNCHANGED pdf_pc

\* The user types a question (or clears it): a run with the button not pressed.
TypeQuestion ==
    /\ app_pc = "idle"
    /\ uploaded_file # 0
    /\ process_runs < MaxRuns
    /\ user_question' = ~user_question
    /\ process_runs' = ProcessAgain(process_runs)
    /\ screen' = Processed(user_question')
    /\ exam_json' = EmptyResults
    /\ story' = <<>>
    /\ UNCHANGED <<app_pc, uploaded_file>>
    /\ UNCHANGED genVars
    /\ UNCHANGED pdf_pc

\* The user presses Generate Comprehensive Exam: a run in which the button
\* is pressed, up to the call of generate_exam_with_groq.
PressGenerate ==
    /\ app_pc = "idle"
    /\ uploaded_file # 0
    /\ process_runs < MaxRuns
    /\ process_runs' = ProcessAgain(process_runs)
    /\ screen' = Processed(user_question)
    /\ exam_json' = EmptyResults
    /\ story' = <<>>
    /\ app_pc' = "generating"
    /\ GenStart([p \in 1..uploaded_file |-> p], TRUE)
    /\ UNCHANGED <<uploaded_file, user_question>>
    /\ UNCHANGED pdf_pc

\* The rest of that run: the outcome is displayed.
ShowExam ==
    /\ app_pc = "generating"
    /\ gen_pc \in {"returned", "raised"}
    /\ IF gen_pc = "raised"
       THEN /\ screen' = [screen EXCEPT !.error = TRUE]
            /\ UNCHANGED <<exam_json, story>>
       ELSE /\ screen' = Display(screen, all_results)
            /\ exam_json' = all_results
            /\ story' = IF screen'.download THEN create_pdf_report(all_results) ELSE <<>>
    /\ app_pc' = "idle"
    /\ gen_pc' = "idle"
    /\ UNCHANGED <<base64_images, status_callback, i, all_results, events, responses,
                   handled, before>>
    /\ UNCHANGED <<uploaded_file, user_question, process_runs>>
    /\ UNCHANGED pdf_pc

\* The user presses Download Exam PDF: a run with the Generate button not pressed.
PressDownload ==
    /\ app_pc = "idle"
    /\ screen.download
    /\ process_runs < MaxRuns
    /\ process_runs' = ProcessAgain(process_runs)
    /\ screen' = Processed(user_question)
    /\ exam_json' = EmptyResults
    /\ story' = <<>>
    /\ UNCHANGED <<app_pc, uploaded_file, user_question>>
    /\ UNCHANGED genVars
    /\ UNCHANGED pdf_pc

IdleGen ==
    /\ base64_images = <<>>
    /\ status_callback = FALSE
    /\ i = 0
    /\ gen_pc = "idle"
    /\ all_results = EmptyResults
    /\ events = <<>>
    /\ responses = <<>>
    /\ handled = <<>>
    /\ before = EmptyResults

\* A new session: no file, nothing displayed.
InitApp ==
    /\ IdleGen
    /\ app_pc = "idle"
    /\ uploaded_file = 0
    /\ user_question = FALSE
    /\ process_runs = 0
    /\ screen = NoScreen
    /\ exam_json = EmptyResults
    /\ story = <<>>
    /\ pdf_pc = "none"

\* The user reloads the page: the session is discarded.
Reload ==
    /\ app_pc = "idle"
    /\ uploaded_file # 0
    /\ base64_images' = <<>>
    /\ status_callback' = FALSE
    /\ i' = 0
    /\ gen_pc' = "idle"
    /\ all_results' = EmptyResults
    /\ events' = <<>>
    /\ responses' = <<>>
    /\ handled' = <<>>
    /\ before' = EmptyResults
    /\ uploaded_file' = 0
    /\ user_question' = FALSE
    /\ process_runs' = 0
    /\ screen' = NoScreen
    /\ exam_json' = EmptyResults
    /\ story' = <<>>
    /\ UNCHANGED <<app_pc, pdf_pc>>

Next ==
    \/ Upload
    \/ TypeQuestion
    \/ PressGenerate
    \/ GenIterate
    \/ GenReturn
    \/ ShowExam
    \/ PressDownload
    \/ Reload

Spec == InitApp /\ [][Next]_vars

\* create_pdf_report alone, on any exam of up to MaxPdfItems items a list,
\* the items of a list having any one set of keys.
PdfList(k) ==
    {ItemList(1, k, len, shape) : len \in 0..MaxPdfItems, shape \in SUBSET Fields}

InitPdf ==
    /\ IdleGen
    /\ app_pc = "none"
    /\ uploaded_file = 0
    /\ user_question = FALSE
    /\ process_runs = 0
    /\ screen = NoScreen
    /\ \E m \in PdfList("mcq"), s \in PdfList("short_answer"), e \in PdfList("essay") :
         exam_json = [k \in KeySet |-> CASE k = "mcq" -> m
                                         [] k = "short_answer" -> s
                                         [] k = "essay" -> e]
    /\ story = <<>>
    /\ pdf_pc = "start"

NextPdf == CreatePdfReport

SpecPdf == InitPdf /\ [][NextPdf]_vars

----------------------------------------------------------------------------
(* Properties of generate_exam_with_groq, under SpecGen *)

\* The number of batches of n pages, stated without the code's arithmetic:
\* the least t with batch_size * t >= n.
Batches(n) == CHOOSE t \in 0..n : batch_size * t >= n /\ \A u \in 0..n : batch_size * u >= n => t <= u

EventsOf(type) == SelectSeq(events, LAMBDA e : e.type = type)

Calls == EventsOf("call")

\* A batch fails when its call raises, its content is not a JSON object, or
\* one of the three keys holds a value that cannot be merged.
Fails(resp) == resp.kind # "object" \/ \E k \in KeySet : resp.vals[k].t = "noniter"

RECURSIVE PagesOf(_)
PagesOf(calls) == IF calls = <<>> THEN <<>> ELSE Head(calls).pages \o PagesOf(Tail(calls))

\* C1: a failure while processing a batch never aborts the run: the function
\* never raises, it can always take its next step until it has returned, the
\* batches attempted so far are 1, 2, ..., each exactly once, and at the
\* return every one of the Batches(n) batches has been attempted exactly once.
C1_FailuresDoNotAbort ==
    /\ gen_pc \in {"loop", "returned"}
    /\ gen_pc = "loop" => ENABLED (GenIterate \/ GenReturn)
    /\ \A c \in 1..Len(Calls) : Calls[c].batch = c
    /\ Len(Calls) = Len(responses)
    /\ gen_pc = "loop" => Len(Calls) = Batches(Min(i, total_pages))
    /\ gen_pc = "returned" => Len(Calls) = Batches(total_pages)

\* C1 witness: the first of two batches failed, the second was attempted
\* and the function returned.
C1_Witness ==
    /\ gen_pc = "returned"
    /\ Len(responses) = 2
    /\ Fails(responses[1])
    /\ ~Fails(responses[2])
    /\ Len(Calls) = 2

\* C2: the batches sent are consecutive slices in page order that cover the
\* pages processed so far, each of exactly batch_size pages except the last
\* of a finished run, which holds between 1 and batch_size; at the return
\* every page has been sent exactly once, and with no page no call is made
\* and the three lists are empty.
C2_BatchesCoverPdf ==
    /\ PagesOf(Calls) = SubSeq(base64_images, 1, Min(i, total_pages))
    /\ \A c \in 1..Len(Calls) :
         /\ Len(Calls[c].pages) \in 1..batch_size
         /\ (c < Len(Calls) => Len(Calls[c].pages) = batch_size)
         /\ (gen_pc = "loop" /\ i < total_pages => Len(Calls[c].pages) = batch_size)
    /\ gen_pc = "returned" =>
         /\ PagesOf(Calls) = base64_images
         /\ (total_pages = 0 => Calls = <<>> /\ all_results = EmptyResults)

\* C2 witness: a finished run of two batches, the last one of a single page.
C2_Witness ==
    /\ gen_pc = "returned"
    /\ Len(Calls) = 2
    /\ Len(Calls[1].pages) = batch_size
    /\ Len(Calls[2].pages) = 1

\* The concatenation, in batch order, of the lists under key k of the
\* responses of the batches that succeeded.
RECURSIVE Concatenation(_, _)
Concatenation(resps, k) ==
    IF resps = <<>> THEN <<>>
    ELSE (IF Fails(Head(resps)) THEN <<>> ELSE Head(resps).vals[k].items)
         \o Concatenation(Tail(resps), k)

\* C3: the result is the concatenation, in batch order, of the same-named
\* lists of the responses of the batches that succeeded.
C3_ResultIsConcatenation ==
    gen_pc = "returned" => \A k \in KeySet : all_results[k] = Concatenation(responses, k)

\* C4: a failed batch is ignored: after a batch that ended in the exception
\* handler the three lists are what they were before it.
C4_FailedBatchIgnored ==
    (responses # <<>> /\ Fails(responses[Len(responses)])) => all_results = before

\* C7: every item of the three lists of the returned result has a question field.
C7_ItemsHaveQuestion ==
    gen_pc = "returned" =>
        \A k \in KeySet : \A n \in 1..Len(all_results[k]) : "question" \in all_results[k][n].has

\* The progress message of batch b of a run over n pages.
ProgressMessage(b, n) ==
    [type |-> "status", batch |-> b, total |-> Batches(n),
     lo |-> batch_size * (b - 1) + 1, hi |-> Min(batch_size * b, n), pages |-> <<>>]

\* C8: with a callback, the progress message of batch b reads b of Batches(n)
\* and pages 5(b-1)+1 to min(5b, n), is emitted once and right before the
\* call of batch b, in increasing order of b; the page ranges are contiguous
\* from 1 and end at n when the function returns; an error message of batch
\* b is emitted iff batch b failed, right after its call, so before the
\* progress message of batch b+1. Without a callback nothing is emitted.
C8_ProgressFollowsBatches ==
    LET status == EventsOf("status")
        errors == EventsOf("error")
        n == total_pages
    IN IF status_callback
       THEN /\ Len(status) = Len(Calls)
            /\ \A b \in 1..Len(status) : status[b] = ProgressMessage(b, n)
            /\ \A b \in 1..Len(status) :
                 /\ (b = 1 => status[b].lo = 1)
                 /\ (b > 1 => status[b].lo = status[b - 1].hi + 1)
                 /\ status[b].lo <= status[b].hi
            /\ (gen_pc = "returned" /\ n > 0 => status[Len(status)].hi = n)
            /\ \A x \in 1..Len(events) :
                 /\ events[x].type = "status" =>
                      x < Len(events) /\ events[x + 1].type = "call"
                      /\ events[x + 1].batch = events[x].batch
                 /\ events[x].type = "call" =>
                      x > 1 /\ events[x - 1].type = "status"
                 /\ events[x].type = "error" =>
                      x > 1 /\ events[x - 1].type = "call"
                      /\ events[x - 1].batch = events[x].batch
            /\ \A b \in 1..Len(responses) :
                 Fails(responses[b]) <=> (\E x \in 1..Len(errors) : errors[x].batch = b)
            /\ \A x, y \in 1..Len(errors) : errors[x].batch = errors[y].batch => x = y
       ELSE status = <<>> /\ errors = <<>>

\* C8 witness: a finished run with a callback, two batches, the first failed.
C8_Witness ==
    /\ gen_pc = "returned"
    /\ status_callback
    /\ Len(responses) = 2
    /\ Fails(responses[1])
    /\ ~Fails(responses[2])
    /\ Len(events) = 5

----------------------------------------------------------------------------
(* Properties of the page script, under Spec *)

\* C5: for one uploaded PDF the temp-file write, extraction, chunking and
\* index build are executed once, whatever the user does afterwards.
C5_ProcessedOncePerUpload == process_runs <= 1

\* C6: once an exam is displayed with its download button, it is still
\* displayed after the user presses Download Exam PDF or types a question.
C6_ExamOutlivesUserActions ==
    [][(screen.rendered /\ screen.download /\ (PressDownload \/ TypeQuestion))
         => (screen'.rendered /\ screen'.download)]_vars

\* C9: once generation has returned and its outcome is displayed, the page
\* shows the warning iff the three lists are empty, and otherwise the success
\* message with the total of the three lengths, followed by the export
\* section; when every batch failed it shows the warning; the download
\* button is never offered for an empty exam.
C9_WarningOrSuccessWithExport ==
    (screen.warning \/ screen.success \/ screen.error) =>
        LET empty == \A k \in KeySet : Len(exam_json[k]) = 0 IN
        /\ screen.warning <=> empty
        /\ screen.success <=> ~empty
        /\ screen.success =>
             /\ screen.total = Len(exam_json["mcq"]) + Len(exam_json["short_answer"])
                                 + Len(exam_json["essay"])
             /\ screen.export
             /\ ~screen.error
        /\ (\A b \in 1..Len(responses) : Fails(responses[b])) => screen.warning
        /\ screen.download => ~empty

----------------------------------------------------------------------------
(* Properties of create_pdf_report, under SpecPdf *)

QuestionTitle(k) ==
    CASE k = "mcq" -> "Part I: Multiple Choice Questions"
      [] k = "short_answer" -> "Part II: Short Answer Questions"
      [] k = "essay" -> "Part III: Essay Questions"

AnswerTitle(k) ==
    CASE k = "mcq" -> "Multiple Choice Answers:"
      [] k = "short_answer" -> "Short Answer Reference:"
      [] k = "essay" -> "Essay Key Points:"

AnswerField(k) == IF k = "essay" THEN "key_points_to_cover" ELSE "answer"

\* The titles of the sections an exam calls for, in the order of Keys.
RECURSIVE TitlesFrom(_, _, _)
TitlesFrom(exam, n, questions) ==
    IF n > Len(Keys) THEN <<>>
    ELSE (IF exam[Keys[n]] # <<>>
          THEN <<IF questions THEN QuestionTitle(Keys[n]) ELSE AnswerTitle(Keys[n])>>
          ELSE <<>>)
         \o TitlesFrom(exam, n + 1, questions)

SectionTitles(seq) ==
    LET heads == SelectSeq(seq, LAMBDA e : e.style = "section")
    IN [x \in 1..Len(heads) |-> heads[x].lit]

\* The numbered paragraphs of the section of seq headed title: those after
\* its heading and before the next section heading.
NumberedIn(seq, title) ==
    LET at == CHOOSE x \in 1..Len(seq) : seq[x].style = "section" /\ seq[x].lit = title
        later == {y \in (at + 1)..Len(seq) : seq[y].style = "section"}
        last == IF later = {} THEN Len(seq)
                ELSE (CHOOSE y \in later : \A z \in later : y <= z) - 1
    IN SelectSeq(SubSeq(seq, at + 1, last), LAMBDA e : e.style = "question")

\* What an item shows for a field: its value, or 'N/A' when it lacks it.
Shows(q, field) ==
    IF field \in q.has THEN [field |-> field, id |-> q.id, opt |-> 0]
    ELSE [field |-> "N/A", id |-> 0, opt |-> 0]

\* C10: the story is the title, the question sections Part I, II, III, each
\* present iff its list is non-empty, exactly one page break, then the Answer
\* Key with its sub-sections in the same order under the same condition; in
\* every section the entries are numbered 1, 2, ..., the n-th question and
\* the n-th answer come from the n-th item of the list, a missing field shows
\* as 'N/A' and an item without options has no option lines.
C10_ReportOrder ==
    pdf_pc = "built" =>
        LET breaks == {x \in 1..Len(story) : story[x].kind = "PageBreak"}
            pb == CHOOSE x \in breaks : TRUE
            front == SubSeq(story, 1, pb - 1)
            back == SubSeq(story, pb + 1, Len(story))
        IN /\ Cardinality(breaks) = 1
           /\ story[1].style = "title" /\ story[1].lit = "Generated Exam Report"
           /\ back # <<>> /\ back[1].style = "title" /\ back[1].lit = "Answer Key"
           /\ \A x \in 2..Len(front) : front[x].style # "title"
           /\ \A x \in 2..Len(back) : back[x].style # "title"
           /\ SectionTitles(front) = TitlesFrom(exam_json, 1, TRUE)
           /\ SectionTitles(back) = TitlesFrom(exam_json, 1, FALSE)
           /\ \A k \in KeySet : exam_json[k] # <<>> =>
                LET qs == NumberedIn(front, QuestionTitle(k))
                    as == NumberedIn(back, AnswerTitle(k))
                IN /\ Len(qs) = Len(exam_json[k])
                   /\ Len(as) = Len(exam_json[k])
                   /\ \A n \in 1..Len(exam_json[k]) :
                        /\ qs[n].num = n
                        /\ qs[n].val = Shows(exam_json[k][n], "question")
                        /\ as[n].num = n
                        /\ as[n].val = Shows(exam_json[k][n], AnswerField(k))
           /\ Len(SelectSeq(back, LAMBDA e : e.style = "option")) = 0
           /\ Len(SelectSeq(front, LAMBDA e : e.style = "option"))
                = NumOptions * Cardinality({n \in 1..Len(exam_json["mcq"]) :
                                     "options" \in exam_json["mcq"][n].has})

\* C10 witness: a report built from three non-empty lists, two items in the
\* first, whose items lack the question, the options and the answer.
C10_Witness ==
    /\ pdf_pc = "built"
    /\ Len(exam_json["mcq"]) = 2
    /\ exam_json["mcq"][1].has = {}
    /\ exam_json["short_answer"] # <<>>
    /\ Len(exam_json["essay"]) = 2
    /\ exam_json["essay"][1].has = {"question"}
    /\ Len(story) > 10

====
